---- MODULE Spec2Model ----
(***************************************************************************)
(* Position Engine of powertrader-ts (backend/src/trader/Trader.ts, the    *)
(* strategy-driven Trader): the periodic tick over the configured coins,   *)
(* processCoin with its entry / signal-exit / DCA / trailing-stop steps,   *)
(* and enterTrade / executeDCA / exitTrade with their calls to the order,  *)
(* alerting and trade-log collaborators.                                   *)
(*                                                                         *)
(* Simulation Engine (engine/backtest/BacktestEngine.ts) with the grid     *)
(* strategy and the historical-data fetch it replays.                      *)
(*                                                                         *)
(* Parameter Search (extensions/hyperopt/HyperOpt.ts): the genetic search  *)
(* that scores every individual with a run of the Simulation Engine.       *)
(*                                                                         *)
(* JavaScript numbers are modelled as exact rationals n/d extended with    *)
(* +Infinity, -Infinity and NaN (d = 0), so that 100 / 0, 0 * Infinity and *)
(* comparisons against NaN behave as they do in the program.               *)
(***************************************************************************)
EXTENDS Integers, Sequences, FiniteSets, TLC

(***************************************************************************)
(* Numbers                                                                 *)
(***************************************************************************)
Abs(x) == IF x < 0 THEN -x ELSE x

Sgn(x) == IF x > 0 THEN 1 ELSE IF x < 0 THEN -1 ELSE 0

RECURSIVE Gcd(_, _)
Gcd(a, b) == IF b = 0 THEN a ELSE Gcd(b, a % b)

\* n/d in lowest terms; d = 0 encodes Infinity (n = 1), -Infinity (n = -1), NaN (n = 0)
Norm(n, d) ==
    IF d = 0 THEN [n |-> Sgn(n), d |-> 0]
    ELSE IF d = 1 THEN [n |-> n, d |-> 1]
    ELSE LET g == Gcd(Abs(n), d) IN [n |-> n \div g, d |-> d \div g]

R(n, d) == Norm(n, d)

Zero == R(0, 1)

NaN == [n |-> 0, d |-> 0]

Infinity == [n |-> 1, d |-> 0]

IsNaN(a) == a.d = 0 /\ a.n = 0

\* common factors are cancelled before the products are formed; whole numbers
\* take the short way in every operation
FMul(a, b) ==
    IF a.d = 1 /\ b.d = 1 THEN [n |-> a.n * b.n, d |-> 1]
    ELSE IF a.d = 0 \/ b.d = 0 \/ a.n = 0 \/ b.n = 0 THEN Norm(a.n * b.n, a.d * b.d)
    ELSE LET g1 == Gcd(Abs(a.n), b.d)
             g2 == Gcd(Abs(b.n), a.d)
         IN  Norm((a.n \div g1) * (b.n \div g2), (a.d \div g2) * (b.d \div g1))

FRecip(a) ==
    IF a.n = 0 THEN (IF a.d = 0 THEN NaN ELSE Infinity)
    ELSE IF a.d = 0 THEN Zero
    ELSE IF a.n > 0 THEN [n |-> a.d, d |-> a.n]
    ELSE [n |-> -a.d, d |-> -a.n]

FDiv(a, b) == FMul(a, FRecip(b))

FNeg(a) == [n |-> -a.n, d |-> a.d]

FAdd(a, b) ==
    IF a.d = 1 /\ b.d = 1 THEN [n |-> a.n + b.n, d |-> 1]
    ELSE IF a.d = 0 \/ b.d = 0
    THEN IF IsNaN(a) \/ IsNaN(b) THEN NaN
         ELSE IF a.d = 0 /\ b.d = 0 THEN (IF a.n = b.n THEN a ELSE NaN)
         ELSE IF a.d = 0 THEN a ELSE b
    ELSE LET g == Gcd(a.d, b.d)
         IN  Norm(a.n * (b.d \div g) + b.n * (a.d \div g), (a.d \div g) * b.d)

FSub(a, b) == FAdd(a, FNeg(b))

\* a < b as JavaScript evaluates it: false whenever an operand is NaN
FLt(a, b) ==
    /\ ~IsNaN(a)
    /\ ~IsNaN(b)
    /\ IF a.d = 1 /\ b.d = 1 THEN a.n < b.n
       ELSE IF a.d = 0 \/ b.d = 0
       THEN \/ (a.d = 0 /\ a.n = -1 /\ ~(b.d = 0 /\ b.n = -1))
            \/ (b.d = 0 /\ b.n = 1 /\ ~(a.d = 0 /\ a.n = 1))
       ELSE LET g == Gcd(a.d, b.d)
            IN  a.n * (b.d \div g) < b.n * (a.d \div g)

FLe(a, b) == ~IsNaN(a) /\ ~IsNaN(b) /\ (a = b \/ FLt(a, b))

FGt(a, b) == FLt(b, a)

FGe(a, b) == FLe(b, a)

(***************************************************************************)
(* Configuration (ConfigManager "trading" section) and inputs              *)
(***************************************************************************)
\* the coins a configuration may list under trading.coins
AllCoins == <<"BTC", "ETH", "SOL">>

\* the longest trading.coins list explored
MaxCoins == 2

\* the scale-in levels of the configuration the trader usually runs with
TwoLevels == <<R(-25, 10), R(-5, 1)>>

dca_multiplier == R(2, 1)

pm_start_pct_no_dca == R(5, 1)

pm_start_pct_with_dca == R(25, 10)

\* trading.trailing_gap_pct is read from the configuration in every
\* evaluation, so it may differ from one evaluation to the next
GapChoices == {R(5, 10), R(2, 1)}

\* prices the ticker can report; 0 is what the connectors return when the
\* request for the price failed
Prices == {Zero, R(974, 10), R(100, 1), R(106, 1), R(109, 1), R(110, 1)}

\* the price reported while several coins are traded side by side
FewPrices == {R(100, 1)}

\* setInterval(() => this.tick(), 10000): firings per 24 hours
TicksPerDay == 8640

\* the firings after start-up that are followed with the clock running
Horizon == 6

\* the prices reported while the clock is followed
DayPrices == {R(974, 10), R(100, 1), R(106, 1), R(110, 1)}

\* fetchOHLCV + strategy: throws, no candles, or the last candle's signal
CandleOutcomes == {"throw", "empty", "signal", "nosignal"}

\* a trade method calls createOrder and then logTrade: the order is rejected,
\* or it is accepted and the trade-log write throws, or both succeed
CallOutcomes == {<<FALSE, FALSE>>, <<TRUE, FALSE>>, <<TRUE, TRUE>>}

(***************************************************************************)
(* State                                                                   *)
(***************************************************************************)
VARIABLES
    coins,          \* config.get("trading.coins"): the configured coins, in order
    feed,           \* the prices the ticker reports in this run
    activeTrades,   \* Map<string, position>: a function on the coins that have a position
    fills,          \* per coin, the accepted buy orders of the current position
    idx,            \* tick(): 0 = no firing in progress, i = coins[i] is next
    evaluated,      \* coins whose processCoin has settled in the current firing
    ev,             \* what the most recent processCoin did
    failed,         \* per coin, the order types that failed in its latest evaluation
    now,            \* timer firings since start-up, where the clock is followed
    dcaBuys,        \* per coin, the firings at which scale-in buys were accepted
    cfg,            \* config.get("trading") as the constructor read it
    overlap,        \* tick() calls whose processCoin has not settled, where firings may overlap
    strategy,       \* the fields of the GridStrategy instance handed to the engine
    history,        \* the bars the exchange holds for the requested range
    requests,       \* the configs callers hand to BacktestEngine.run
    outcome,        \* what the most recent BacktestEngine.run did
    kept,           \* an earlier run, remembered for comparison
    opt             \* HyperOpt.optimize: the call in progress or its outcome

engineVars == <<strategy, history, requests, outcome, kept, opt>>

vars == <<coins, feed, activeTrades, fills, idx, evaluated, ev, failed, now, dcaBuys,
          cfg, overlap, engineVars>>

\* this.dcaLevels = cfg.dca_levels || [-2.5, -5.0, -10.0]: a missing key gives
\* the default, an array (an empty one too) is kept
dcaLevels ==
    IF cfg.dca_levels = <<>> THEN <<R(-25, 10), R(-5, 1), R(-10, 1)>>
    ELSE cfg.dca_levels[1]

\* this.maxDcaBuys = cfg.max_dca_buys_per_24h || 2: a missing key and 0 both
\* give the default
maxDcaBuys ==
    IF cfg.max_dca_buys_per_24h = <<>> \/ cfg.max_dca_buys_per_24h[1] = 0 THEN 2
    ELSE cfg.max_dca_buys_per_24h[1]

\* the trading section the trader usually runs with
UsualTrading == [dca_levels |-> <<TwoLevels>>, max_dca_buys_per_24h |-> <<>>]

CoinSet == {AllCoins[i] : i \in 1..Len(AllCoins)}

\* fetchTicker either rejects (<<>>) or resolves to a price
PriceOutcomes == {<<>>} \cup {<<p>> : p \in feed}

\* the context threaded through one processCoin call
NewCtx(pos, fl, price) ==
    [pos |-> pos, fills |-> fl, price |-> price, candles |-> "", orders |-> <<>>,
     reports |-> <<>>, trail |-> <<>>, threw |-> "", done |-> FALSE]

(***************************************************************************)
(* enterTrade / executeDCA / exitTrade                                     *)
(***************************************************************************)
Order(type, side, amount, price, ok, logged, before, after) ==
    [type |-> type, side |-> side, amount |-> amount, price |-> price,
     ok |-> ok, logged |-> logged, before |-> before, after |-> after]

\* variant of enterTrade: the position is recorded before the order is placed
enterTrade_recordFirst(c, price, orderOk, logOk) ==
    LET amount == FDiv(R(100, 1), price)
        newPos == [amount |-> amount, avgPrice |-> price, dcaCount |-> 0,
                   trailActive |-> FALSE, trailPeak |-> Zero, trailLine |-> Zero]
        fill   == [type |-> "entry", price |-> price, amount |-> amount]
    IN  [c EXCEPT !.orders = Append(@, Order("entry", "buy", amount, price,
                                             orderOk, orderOk /\ logOk, c.pos, <<newPos>>)),
                  !.pos = <<newPos>>,
                  !.fills = <<fill>>,
                  !.threw = IF ~orderOk THEN "order" ELSE IF logOk THEN "" ELSE "log"]

enterTrade(c, price, orderOk, logOk) ==
    LET amount == FDiv(R(100, 1), price)
        newPos == [amount |-> amount, avgPrice |-> price, dcaCount |-> 0,
                   trailActive |-> FALSE, trailPeak |-> Zero, trailLine |-> Zero]
        fill   == [type |-> "entry", price |-> price, amount |-> amount]
    IN  IF ~orderOk
        \* createOrder rejects before this.activeTrades.set
        THEN [c EXCEPT !.orders = Append(@, Order("entry", "buy", amount, price,
                                                  FALSE, FALSE, c.pos, c.pos)),
                       !.threw = "order"]
        ELSE [c EXCEPT !.orders = Append(@, Order("entry", "buy", amount, price,
                                                  TRUE, logOk, c.pos, <<newPos>>)),
                       !.pos = <<newPos>>,
                       !.fills = <<fill>>,
                       !.threw = IF logOk THEN "" ELSE "log"]

\* variant of dcaUpdate: the new average is the plain mean of the old average
\* and the fill price, ignoring the quantities
dcaUpdate_unweighted(position, price, amount) ==
    [position EXCEPT !.amount = FAdd(position.amount, amount),
                     !.avgPrice = FDiv(FAdd(position.avgPrice, price), R(2, 1)),
                     !.dcaCount = @ + 1]

\* position.amount / position.avgPrice / position.dcaCount after the buy
dcaUpdate(position, price, amount) ==
    LET totalCost   == FAdd(FMul(position.avgPrice, position.amount), FMul(price, amount))
        totalAmount == FAdd(position.amount, amount)
    IN  [position EXCEPT !.amount = totalAmount,
                         !.avgPrice = FDiv(totalCost, totalAmount),
                         !.dcaCount = @ + 1]

executeDCA(c, price, orderOk, logOk) ==
    LET position == c.pos[1]
        amount   == FMul(position.amount, dca_multiplier)
        updated  == dcaUpdate(position, price, amount)
        fill     == [type |-> "dca", price |-> price, amount |-> amount]
    IN  IF ~orderOk
        THEN [c EXCEPT !.orders = Append(@, Order("dca", "buy", amount, price,
                                                  FALSE, FALSE, c.pos, c.pos)),
                       !.threw = "order"]
        ELSE [c EXCEPT !.orders = Append(@, Order("dca", "buy", amount, price,
                                                  TRUE, logOk, c.pos, <<updated>>)),
                       !.pos = <<updated>>,
                       !.fills = Append(@, fill),
                       !.threw = IF logOk THEN "" ELSE "log"]

exitTrade(c, price, reason, orderOk, logOk) ==
    LET position == c.pos[1]
    IN  IF ~orderOk
        THEN [c EXCEPT !.orders = Append(@, Order(reason, "sell", position.amount, price,
                                                  FALSE, FALSE, c.pos, c.pos)),
                       !.threw = "order"]
        ELSE IF ~logOk
        \* logTrade throws before this.activeTrades.delete(coin) is reached
        THEN [c EXCEPT !.orders = Append(@, Order(reason, "sell", position.amount, price,
                                                  TRUE, FALSE, c.pos, c.pos)),
                       !.threw = "log"]
        ELSE [c EXCEPT !.orders = Append(@, Order(reason, "sell", position.amount, price,
                                                  TRUE, TRUE, c.pos, <<>>)),
                       !.pos = <<>>,
                       !.fills = <<>>,
                       !.done = TRUE]

(***************************************************************************)
(* processCoin: every step yields the set of contexts it can end in, one   *)
(* for each outcome of the collaborator calls it makes                     *)
(***************************************************************************)
\* notifications.error always resolves: NotificationManager.send catches what a
\* notifier throws, so a failed alert is only an alert that was not delivered
AlertOutcomes == BOOLEAN

\* a catch block that logs with console.error and calls notifications.error
Caught(c, handler) ==
    {[c EXCEPT !.reports = Append(@, [handler |-> handler, cause |-> c.threw,
                                      delivered |-> delivered]),
               !.threw = ""] : delivered \in AlertOutcomes}

\* variant of noPosition: the entry check is made whether or not a position exists
noPosition_unguarded(pos) == TRUE

\* if (!position)
noPosition(pos) == pos = <<>>

pnlPct(position, currentPrice) ==
    FMul(FDiv(FSub(currentPrice, position.avgPrice), position.avgPrice), R(100, 1))

\* variant of nextLevel: an empty list of levels counts as the single level 0
nextLevel_zeroWhenEmpty(levelIndex) ==
    IF levelIndex + 1 \in DOMAIN dcaLevels THEN dcaLevels[levelIndex + 1]
    ELSE IF Len(dcaLevels) = 0 THEN Zero
    ELSE dcaLevels[Len(dcaLevels)]

\* dcaLevels[levelIndex], the last level when levelIndex is past the end
\* (undefined, compared as NaN, when the list is empty)
nextLevel(levelIndex) ==
    IF levelIndex + 1 \in DOMAIN dcaLevels THEN dcaLevels[levelIndex + 1]
    ELSE IF Len(dcaLevels) = 0 THEN NaN
    ELSE dcaLevels[Len(dcaLevels)]

\* variant of dcaTriggered: the level looked up is the one after the next
dcaTriggered_levelAhead(position, pnl) ==
    /\ FLt(pnl, Zero)
    /\ position.dcaCount < maxDcaBuys
    /\ FLe(pnl, nextLevel(position.dcaCount + 1))

dcaTriggered(position, pnl) ==
    /\ FLt(pnl, Zero)
    /\ position.dcaCount < maxDcaBuys
    /\ FLe(pnl, nextLevel(position.dcaCount))

\* variant of startPct: the threshold of a position without scale-ins is used
\* for every position
startPct_noDcaOnly(position) == pm_start_pct_no_dca

\* position.dcaCount === 0 ? pm_start_pct_no_dca : pm_start_pct_with_dca
startPct(position) ==
    IF position.dcaCount = 0 THEN pm_start_pct_no_dca ELSE pm_start_pct_with_dca

\* currentPrice * (1 - trailing_gap_pct / 100)
lineFor(currentPrice, gap) ==
    FMul(currentPrice, FSub(R(1, 1), FDiv(gap, R(100, 1))))

\* variant of ratchet: the line is recomputed from every new peak, without
\* comparing it to the line already set
ratchet_recompute(position, currentPrice, gap) ==
    IF FGt(currentPrice, position.trailPeak)
    THEN [position EXCEPT !.trailPeak = currentPrice,
                          !.trailLine = lineFor(currentPrice, gap)]
    ELSE position

\* variant of ratchet: a new high moves the line and leaves the peak where it was
ratchet_lineOnly(position, currentPrice, gap) ==
    IF FGt(currentPrice, position.trailPeak)
    THEN LET newLine == lineFor(currentPrice, gap)
         IN  [position EXCEPT !.trailLine = IF FGt(newLine, @) THEN newLine ELSE @]
    ELSE position

\* the else branch of "if (!position.trailActive)": move the peak and the line up
ratchet(position, currentPrice, gap) ==
    IF FGt(currentPrice, position.trailPeak)
    THEN LET newLine == lineFor(currentPrice, gap)
         IN  [position EXCEPT !.trailPeak = currentPrice,
                              !.trailLine = IF FGt(newLine, @) THEN newLine ELSE @]
    ELSE position

trailingUpdate(position, currentPrice, gap) ==
    IF ~position.trailActive
    THEN [position EXCEPT !.trailActive = TRUE,
                          !.trailPeak = currentPrice,
                          !.trailLine = lineFor(currentPrice, gap)]
    ELSE ratchet(position, currentPrice, gap)

\* variant of trailingStopHit: the price is compared with the peak, not the line
trailingStopHit_belowPeak(position, currentPrice) ==
    position.trailActive /\ FLt(currentPrice, position.trailPeak)

\* if (position.trailActive && currentPrice < position.trailLine)
trailingStopHit(position, currentPrice) ==
    position.trailActive /\ FLt(currentPrice, position.trailLine)

\* 1. Check for ENTRY
entryCheck(c) ==
    UNION {
        LET c1 == [c EXCEPT !.candles = cand]
        IN  IF cand = "throw" THEN Caught([c1 EXCEPT !.threw = "strategy"], "entry")
            ELSE IF cand = "signal"
            THEN UNION {LET r == enterTrade(c1, c.price[1], oc[1], oc[2])
                        IN  IF r.threw # "" THEN Caught(r, "entry") ELSE {r}
                        : oc \in CallOutcomes}
            ELSE {c1}
        : cand \in CandleOutcomes}

\* Check Strategy Exit: whatever is thrown inside is dropped by "catch (e) {}"
exitCheck(c) ==
    UNION {
        LET c1 == [c EXCEPT !.candles = cand]
        IN  IF cand = "signal"
            THEN {[exitTrade(c1, c.price[1], "strategy_signal", oc[1], oc[2])
                      EXCEPT !.threw = ""] : oc \in CallOutcomes}
            ELSE {c1}
        : cand \in CandleOutcomes}

\* 3. Check for DCA
dcaStep(c, pnl) ==
    IF dcaTriggered(c.pos[1], pnl)
    THEN {executeDCA(c, c.price[1], oc[1], oc[2]) : oc \in CallOutcomes}
    ELSE {c}

\* 4. Check for Trailing Stop Sell: the activation / ratchet ...
trailingStep(c, pnl) ==
    IF FGe(pnl, startPct(c.pos[1]))
    THEN {LET position == trailingUpdate(c.pos[1], c.price[1], gap)
          IN  [c EXCEPT !.pos = <<position>>,
                        !.trail = <<[gap |-> <<gap>>, position |-> position]>>]
          : gap \in GapChoices}
    ELSE {[c EXCEPT !.trail = <<[gap |-> <<>>, position |-> c.pos[1]]>>]}

\* ... and the sell when the price is below the line
trailingExit(c) ==
    IF trailingStopHit(c.pos[1], c.price[1])
    THEN {exitTrade(c, c.price[1], "trailing_stop", oc[1], oc[2]) : oc \in CallOutcomes}
    ELSE {c}

\* the outer try block of processCoin, up to the first exception
processCoinBody(c0) ==
    IF noPosition(c0.pos) THEN entryCheck(c0)
    ELSE LET pnl == pnlPct(c0.pos[1], c0.price[1])
         IN  UNION {
               IF c1.done THEN {c1}
               ELSE UNION {
                      IF c2.threw # "" THEN {c2}
                      ELSE UNION {trailingExit(c3) : c3 \in trailingStep(c2, pnl)}
                      : c2 \in dcaStep(c1, pnl)}
               : c1 \in exitCheck(c0)}

processCoin(pos, fl) ==
    UNION {
        IF price = <<>>
        THEN Caught([NewCtx(pos, fl, price) EXCEPT !.threw = "price"], "processCoin")
        ELSE UNION {IF c.threw # "" THEN Caught(c, "processCoin") ELSE {c}
                    : c \in processCoinBody(NewCtx(pos, fl, price))}
        : price \in PriceOutcomes}

(***************************************************************************)
(* tick                                                                    *)
(***************************************************************************)
\* variant of tickNext: an evaluation that raised an error ends the firing
tickNext_abort(i, n, r) == IF r.reports # <<>> THEN 0 ELSE IF i < n THEN i + 1 ELSE 0

\* for (const coin of coins) { try { await this.processCoin(coin) } catch ... }
tickNext(i, n, r) == IF i < n THEN i + 1 ELSE 0

\* GridStrategy as constructed: lowerPrice = 20000, upperPrice = 25000,
\* gridLines = 10, amountPerGrid = 100
GridDefaults ==
    [lowerPrice |-> R(20000, 1), upperPrice |-> R(25000, 1), gridLines |-> 10,
     amountPerGrid |-> R(100, 1)]

NoOutcome == [status |-> "none"]

\* optimize has not been called
NoSearch == [status |-> "idle"]

\* no simulation has been requested
EnginesIdle ==
    /\ strategy = GridDefaults
    /\ history = <<>>
    /\ requests = {}
    /\ outcome = NoOutcome
    /\ kept = <<>>
    /\ opt = NoSearch

\* no firing has been followed across its awaits
NoOverlap == [flights |-> <<>>, net |-> Zero, unlogged |-> FALSE, fired |-> 0]

NoEvaluation ==
    [coin |-> "", price |-> <<>>, candles |-> "", pre |-> <<>>,
     orders |-> <<>>, reports |-> <<>>, trail |-> <<>>, prevFailed |-> {}]

Init ==
    /\ \/ coins = <<AllCoins[1]>> /\ feed = Prices
       \/ coins = SubSeq(AllCoins, 1, MaxCoins) /\ feed = FewPrices
    /\ activeTrades = <<>>
    /\ fills = [c \in CoinSet |-> <<>>]
    /\ idx = 0
    /\ evaluated = <<>>
    /\ ev = NoEvaluation
    /\ failed = [c \in CoinSet |-> {}]
    /\ now = 0
    /\ dcaBuys = [c \in CoinSet |-> <<>>]
    /\ cfg = UsualTrading
    /\ overlap = NoOverlap
    /\ EnginesIdle

\* setInterval(() => this.tick(), 10000)
TimerFires ==
    /\ idx = 0
    /\ idx' = 1
    /\ evaluated' = <<>>
    /\ ev' = NoEvaluation
    /\ UNCHANGED <<coins, feed, activeTrades, fills, failed, now, dcaBuys, cfg, overlap, engineVars>>

\* the orders of one type that createOrder accepted in an evaluation
AcceptedOrders(r, type) ==
    {i \in DOMAIN r.orders : r.orders[i].type = type /\ r.orders[i].ok}

Settle(coin, pos, r) ==
    /\ activeTrades' =
          [k \in (IF r.pos = <<>> THEN DOMAIN activeTrades \ {coin}
                  ELSE DOMAIN activeTrades \cup {coin})
             |-> IF k = coin THEN r.pos[1] ELSE activeTrades[k]]
    /\ fills' = [fills EXCEPT ![coin] = r.fills]
    /\ ev' = [coin |-> coin, price |-> r.price, candles |-> r.candles,
              pre |-> pos, orders |-> r.orders, reports |-> r.reports,
              trail |-> r.trail, prevFailed |-> failed[coin]]
    /\ failed' = [failed EXCEPT ![coin] =
                     {r.orders[i].type : i \in {j \in DOMAIN r.orders : ~r.orders[j].ok}}]
    /\ evaluated' = Append(evaluated, coin)
    /\ idx' = tickNext(idx, Len(coins), r)
    /\ UNCHANGED <<coins, feed, cfg>>

ProcessCoin ==
    /\ idx \in 1..Len(coins)
    /\ LET coin == coins[idx]
           pos  == IF coin \in DOMAIN activeTrades THEN <<activeTrades[coin]>> ELSE <<>>
       IN  \E r \in processCoin(pos, fills[coin]) :
               Settle(coin, pos, r) /\ UNCHANGED <<now, dcaBuys, overlap, engineVars>>

Next == TimerFires \/ ProcessCoin

Spec == Init /\ [][Next]_vars

(***************************************************************************)
(* The same trader with the clock followed: one coin, the first Horizon    *)
(* firings of the 10-second timer, and the scale-in buys counted           *)
(***************************************************************************)
InitDay ==
    /\ coins = <<AllCoins[1]>>
    /\ feed = DayPrices
    /\ activeTrades = <<>>
    /\ fills = [c \in CoinSet |-> <<>>]
    /\ idx = 0
    /\ evaluated = <<>>
    /\ ev = NoEvaluation
    /\ failed = [c \in CoinSet |-> {}]
    /\ now = 0
    /\ dcaBuys = [c \in CoinSet |-> <<>>]
    /\ cfg = UsualTrading
    /\ overlap = NoOverlap
    /\ EnginesIdle

TimerFiresDay ==
    /\ now < Horizon
    /\ idx = 0
    /\ idx' = 1
    /\ evaluated' = <<>>
    /\ ev' = NoEvaluation
    /\ now' = now + 1
    /\ UNCHANGED <<coins, feed, activeTrades, fills, failed, dcaBuys, cfg, overlap, engineVars>>

ProcessCoinDay ==
    /\ idx \in 1..Len(coins)
    /\ LET coin == coins[idx]
           pos  == IF coin \in DOMAIN activeTrades THEN <<activeTrades[coin]>> ELSE <<>>
       IN  \E r \in processCoin(pos, fills[coin]) :
               /\ Settle(coin, pos, r)
               /\ dcaBuys' = [dcaBuys EXCEPT
                                 ![coin] = @ \o [i \in 1..Cardinality(AcceptedOrders(r, "dca"))
                                                   |-> now]]
               /\ UNCHANGED <<now, overlap, engineVars>>

NextDay == TimerFiresDay \/ ProcessCoinDay

SpecDay == InitDay /\ [][NextDay]_vars

(***************************************************************************)
(* The clock followed over more than 24 hours                              *)
(***************************************************************************)
\* the prices reported while more than a day is followed
WindowPrices == {R(80, 1), R(100, 1), R(110, 1)}

\* the firings followed one by one at the start of each day
WindowFirings == 4

InitWindow ==
    /\ coins = <<AllCoins[1]>>
    /\ feed = WindowPrices
    /\ activeTrades = <<>>
    /\ fills = [c \in CoinSet |-> <<>>]
    /\ idx = 0
    /\ evaluated = <<>>
    /\ ev = NoEvaluation
    /\ failed = [c \in CoinSet |-> {}]
    /\ now = 0
    /\ dcaBuys = [c \in CoinSet |-> <<>>]
    /\ cfg = UsualTrading
    /\ overlap = NoOverlap
    /\ EnginesIdle

\* the firings of the next 24 hours, in each of which the price request is
\* rejected: processCoin's catch reports it and nothing else changes
QuietDay ==
    /\ now < TicksPerDay
    /\ idx = 0
    /\ now' = now + TicksPerDay
    /\ LET coin == coins[1]
           pos  == IF coin \in DOMAIN activeTrades THEN <<activeTrades[coin]>> ELSE <<>>
       IN  \E r \in processCoin(pos, fills[coin]) :
               /\ r.price = <<>>
               /\ ev' = [coin |-> coin, price |-> r.price, candles |-> r.candles,
                         pre |-> pos, orders |-> r.orders, reports |-> r.reports,
                         trail |-> r.trail, prevFailed |-> {}]
               /\ failed' = [failed EXCEPT ![coin] = {}]
               /\ evaluated' = <<coin>>
    /\ UNCHANGED <<coins, feed, activeTrades, fills, idx, dcaBuys, cfg, overlap, engineVars>>

TimerFiresWindow ==
    /\ now % TicksPerDay < WindowFirings
    /\ idx = 0
    /\ idx' = 1
    /\ evaluated' = <<>>
    /\ ev' = NoEvaluation
    /\ now' = now + 1
    /\ UNCHANGED <<coins, feed, activeTrades, fills, failed, dcaBuys, cfg, overlap, engineVars>>

NextWindow == TimerFiresWindow \/ ProcessCoinDay \/ QuietDay

SpecWindow == InitWindow /\ [][NextWindow]_vars

(***************************************************************************)
(* The same trader started with other trading sections                     *)
(***************************************************************************)
\* the largest max_dca_buys_per_24h configured
MaxConfigured == 2

\* dca_levels is missing, an empty list or a list; max_dca_buys_per_24h is a
\* number from 0 on
TradingChoices ==
    {[dca_levels |-> l, max_dca_buys_per_24h |-> <<m>>] :
        l \in {<<>>, <<<<>>>>, <<TwoLevels>>}, m \in 0..MaxConfigured}

\* the prices reported to a trader started with one of these sections
CfgPrices == {R(974, 10), R(100, 1), R(106, 1), R(110, 1)}

InitCfg ==
    /\ coins = <<AllCoins[1]>>
    /\ feed = CfgPrices
    /\ activeTrades = <<>>
    /\ fills = [c \in CoinSet |-> <<>>]
    /\ idx = 0
    /\ evaluated = <<>>
    /\ ev = NoEvaluation
    /\ failed = [c \in CoinSet |-> {}]
    /\ now = 0
    /\ dcaBuys = [c \in CoinSet |-> <<>>]
    /\ cfg \in TradingChoices
    /\ overlap = NoOverlap
    /\ EnginesIdle

SpecCfg == InitCfg /\ [][Next]_vars

(***************************************************************************)
(* The same trader with the awaits of tick() followed: one coin at one     *)
(* price, and timer firings that do not wait for the call before them      *)
(***************************************************************************)
\* the timer firings followed
MaxFirings == 4

\* the tick() calls that are in flight at once
MaxFlights == 2

\* the price the ticker reports while overlapping firings are followed: at the
\* entry price no scale-in and no trailing step changes a position
OverlapPrice == R(100, 1)

InitOverlap ==
    /\ coins = <<AllCoins[1]>>
    /\ feed = {OverlapPrice}
    /\ activeTrades = <<>>
    /\ fills = [c \in CoinSet |-> <<>>]
    /\ idx = 0
    /\ evaluated = <<>>
    /\ ev = NoEvaluation
    /\ failed = [c \in CoinSet |-> {}]
    /\ now = 0
    /\ dcaBuys = [c \in CoinSet |-> <<>>]
    /\ cfg = UsualTrading
    /\ overlap = NoOverlap
    /\ EnginesIdle

\* variant of mayFire: a firing is skipped while an earlier tick() has not
\* returned
mayFire_oneAtATime(flights) == flights = <<>>

\* setInterval(() => this.tick(), 10000) calls tick() at every firing, whether
\* or not an earlier call has returned
mayFire(flights) == TRUE

\* a firing: tick() reads the coins and processCoin awaits fetchTicker
TimerFiresOverlap ==
    /\ mayFire(overlap.flights)
    /\ overlap.fired < MaxFirings
    /\ Len(overlap.flights) < MaxFlights
    /\ overlap' = [overlap EXCEPT !.fired = @ + 1,
                                  !.flights = Append(@, [pc |-> "ticker", pos |-> <<>>,
                                                          fills |-> <<>>])]
    /\ UNCHANGED <<coins, feed, activeTrades, fills, idx, evaluated, ev, failed, now,
                   dcaBuys, cfg, engineVars>>

\* fetchTicker has settled: let position = this.activeTrades.get(coin)
ReadPosition ==
    /\ \E i \in DOMAIN overlap.flights :
         /\ overlap.flights[i].pc = "ticker"
         /\ overlap' = [overlap EXCEPT
                          !.flights[i] =
                             [pc |-> "read",
                              pos |-> IF coins[1] \in DOMAIN activeTrades
                                      THEN <<activeTrades[coins[1]]>> ELSE <<>>,
                              fills |-> fills[coins[1]]]]
    /\ UNCHANGED <<coins, feed, activeTrades, fills, idx, evaluated, ev, failed, now,
                   dcaBuys, cfg, engineVars>>

\* the quantity createOrder accepted in an evaluation: buys minus sells
RECURSIVE acceptedNet(_)
acceptedNet(orders) ==
    IF orders = <<>> THEN Zero
    ELSE LET o    == orders[Len(orders)]
             rest == acceptedNet(SubSeq(orders, 1, Len(orders) - 1))
         IN  IF ~o.ok THEN rest
             ELSE IF o.side = "buy" THEN FAdd(rest, o.amount) ELSE FSub(rest, o.amount)

\* this.activeTrades after the call: set(coin, ...) by enterTrade, delete(coin)
\* by exitTrade, and otherwise the map as the other calls have left it
mapAfter(trades, coin, before, after) ==
    IF before = <<>> /\ after # <<>>
    THEN [k \in DOMAIN trades \cup {coin} |-> IF k = coin THEN after[1] ELSE trades[k]]
    ELSE IF before # <<>> /\ after = <<>>
    THEN [k \in DOMAIN trades \ {coin} |-> trades[k]]
    ELSE trades

\* the rest of processCoin, from the position it has read to its return
ProcessCoinOverlap ==
    /\ \E i \in DOMAIN overlap.flights :
         /\ overlap.flights[i].pc = "read"
         /\ \E r \in processCoin(overlap.flights[i].pos, overlap.flights[i].fills) :
              /\ activeTrades' = mapAfter(activeTrades, coins[1],
                                          overlap.flights[i].pos, r.pos)
              /\ fills' = [fills EXCEPT ![coins[1]] =
                              IF (overlap.flights[i].pos = <<>>) # (r.pos = <<>>)
                              THEN r.fills ELSE @]
              /\ overlap' = [overlap EXCEPT
                               !.flights = SubSeq(@, 1, i - 1) \o SubSeq(@, i + 1, Len(@)),
                               !.net = FAdd(@, acceptedNet(r.orders)),
                               !.unlogged = @ \/ \E k \in DOMAIN r.orders :
                                                   r.orders[k].ok /\ ~r.orders[k].logged]
    /\ UNCHANGED <<coins, feed, idx, evaluated, ev, failed, now, dcaBuys, cfg, engineVars>>

NextOverlap == TimerFiresOverlap \/ ReadPosition \/ ProcessCoinOverlap

SpecOverlap == InitOverlap /\ [][NextOverlap]_vars

(***************************************************************************)
(* GridStrategy                                                            *)
(***************************************************************************)
\* whether "if (x)" takes the branch for a number x
Truthy(x) == ~IsNaN(x) /\ x # Zero

\* if (params.key) this.key = params.key, for each of the four keys
setParameters(s, params) ==
    [k \in DOMAIN s |->
        IF k \in DOMAIN params
           /\ (IF k = "gridLines" THEN params[k] # 0 ELSE Truthy(params[k]))
        THEN params[k]
        ELSE s[k]]

gridStep(s) == FDiv(FSub(s.upperPrice, s.lowerPrice), R(s.gridLines, 1))

\* this.lowerPrice + (j * gridStep)
gridLevel(s, step, j) == FAdd(s.lowerPrice, FMul(R(j, 1), step))

\* { ...c, field: value }
WithField(c, field, value) ==
    [k \in DOMAIN c \cup {field} |-> IF k = field THEN value ELSE c[k]]

\* returns new candle objects carrying grid_levels and grid_step
populateIndicators(s, candles) ==
    LET step == gridStep(s)
    IN  [i \in DOMAIN candles |->
            WithField(WithField(candles[i], "grid_levels",
                                [j \in 1..(s.gridLines + 1) |-> gridLevel(s, step, j - 1)]),
                      "grid_step", step)]

\* prev > level && curr <= level for some grid line
crossesDown(s, step, prev, curr) ==
    \E j \in 0..s.gridLines :
        LET level == gridLevel(s, step, j) IN FGt(prev, level) /\ FLe(curr, level)

\* prev < level && curr >= level for some grid line
crossesUp(s, step, prev, curr) ==
    \E j \in 0..s.gridLines :
        LET level == gridLevel(s, step, j) IN FLt(prev, level) /\ FGe(curr, level)

\* sets buy_signal on every candle but the first, which keeps none
populateBuyTrend(s, candles) ==
    LET step == gridStep(s)
    IN  [i \in DOMAIN candles |->
            IF i = 1 THEN candles[i]
            ELSE WithField(candles[i], "buy_signal",
                           crossesDown(s, step, candles[i - 1].close, candles[i].close))]

populateSellTrend(s, candles) ==
    LET step == gridStep(s)
    IN  [i \in DOMAIN candles |->
            IF i = 1 THEN candles[i]
            ELSE WithField(candles[i], "sell_signal",
                           crossesUp(s, step, candles[i - 1].close, candles[i].close))]

(***************************************************************************)
(* HistoricalData.fetch                                                    *)
(***************************************************************************)
\* "If we got fewer than 100 candles, probably end of data": the page size
PageLimit == 100

\* the candles of one response: those of the range, newest first, one page at most
serve(h, startSec, endSec) ==
    LET inRange == SelectSeq(h, LAMBDA c : c.time >= startSec /\ c.time <= endSec)
        n       == Len(inRange)
        k       == IF n < PageLimit THEN n ELSE PageLimit
    IN  [i \in 1..k |-> inRange[n + 1 - i]]

\* timestamp: parseInt(c[0]) * 1000, close: parseFloat(c[2]); the open, high,
\* low and volume columns are read by neither the grid strategy nor the engine
parseCandle(c) == [timestamp |-> c.time * 1000, close |-> c.close]

\* allCandles.sort((a, b) => a.timestamp - b.timestamp): the place of each
\* candle is the number of candles that go before it (SubSeq makes TLC compute
\* the places once)
sortByTime(all) ==
    LET n    == Len(all)
        rank == SubSeq([i \in 1..n |->
                          Cardinality({j \in 1..n :
                              \/ all[j].timestamp < all[i].timestamp
                              \/ all[j].timestamp = all[i].timestamp /\ j < i})],
                       1, n)
    IN  [k \in 1..n |-> all[CHOOSE i \in 1..n : rank[i] = k - 1]]

\* sorted.filter((v, i, a) => i === 0 || v.timestamp !== a[i-1].timestamp)
dropRepeated(sorted) ==
    LET marked == [i \in DOMAIN sorted |->
                      [v |-> sorted[i],
                       first |-> i = 1 \/ sorted[i].timestamp # sorted[i - 1].timestamp]]
        firsts == SelectSeq(marked, LAMBDA m : m.first)
    IN  [i \in DOMAIN firsts |-> firsts[i].v]

\* what fetch returns once the loop is left; failed records that the loop was
\* left through its catch block
fetched(all, caught) == [series |-> dropRepeated(sortByTime(all)), failed |-> caught]

\* while (currentEnd > start): every request either throws or is answered
RECURSIVE fetchLoop(_, _, _, _)
fetchLoop(h, start, currentEnd, all) ==
    IF ~(currentEnd > start) THEN {fetched(all, FALSE)}
    ELSE {fetched(all, TRUE)} \cup
         LET page == serve(h, start \div 1000, currentEnd \div 1000)
         IN  IF Len(page) = 0 THEN {fetched(all, FALSE)}
             ELSE LET parsed     == [i \in DOMAIN page |-> parseCandle(page[i])]
                      oldestTime == parsed[Len(parsed)].timestamp
                  IN  IF Len(page) < PageLimit THEN {fetched(all \o parsed, FALSE)}
                      ELSE fetchLoop(h, start, oldestTime - 1000, all \o parsed)

fetch(h, start, end) == fetchLoop(h, start, end, <<>>)

(***************************************************************************)
(* BacktestEngine.run                                                      *)
(***************************************************************************)
\* const warmup = 50
warmup == 50

\* variant of noData: the series is never found empty
noData_never(candles) == FALSE

\* if (!candles || candles.length === 0)
noData(candles) == Len(candles) = 0

\* let balance = config.initialBalance
openingBalance(config) == config.initialBalance

\* variant of openingTrades: the fills of the run before are still in the list
openingTrades_carried ==
    IF outcome.status = "done" /\ outcome.run.status = "ok"
    THEN outcome.run.result.trades
    ELSE <<>>

\* let trades: any[] = []
openingTrades == <<>>

\* variant of buySignal: every bar counts as a buy signal
buySignal_always(candle) == TRUE

\* if (candle.buy_signal)
buySignal(candle) == "buy_signal" \in DOMAIN candle /\ candle.buy_signal

\* if (candle.sell_signal)
sellSignal(candle) == "sell_signal" \in DOMAIN candle /\ candle.sell_signal

\* variant of spend: the whole balance is spent
spend_all(balance) == balance

\* const amountToSpend = balance * 0.99
spend(balance) == FMul(balance, R(99, 100))

\* one iteration of the trading loop
simBar(st, candle) ==
    LET price       == candle.close
        date        == candle.timestamp
        equity      == IF FGt(st.position, Zero)
                       THEN FAdd(st.balance, FMul(st.position, price))
                       ELSE st.balance
        maxEquity   == IF FGt(equity, st.maxEquity) THEN equity ELSE st.maxEquity
        dd          == FMul(FDiv(FSub(maxEquity, equity), maxEquity), R(100, 1))
        maxDrawdown == IF FGt(dd, st.maxDrawdown) THEN dd ELSE st.maxDrawdown
        marked      == [st EXCEPT !.equityCurve = Append(@, [time |-> date, value |-> equity]),
                                  !.maxEquity = maxEquity,
                                  !.maxDrawdown = maxDrawdown]
    IN  IF st.position = Zero
        THEN IF buySignal(candle)
             THEN LET amountToSpend == spend(st.balance)
                      amount        == FDiv(amountToSpend, price)
                      fee           == FMul(amountToSpend, R(1, 1000))
                  IN  [marked EXCEPT
                          !.balance = FSub(@, FAdd(amountToSpend, fee)),
                          !.position = amount,
                          !.entryPrice = price,
                          !.trades = Append(@, [type |-> "buy", price |-> price,
                                                time |-> date, amount |-> amount,
                                                fee |-> fee])]
             ELSE marked
        ELSE IF sellSignal(candle)
             THEN LET proceeds  == FMul(st.position, price)
                      fee       == FMul(proceeds, R(1, 1000))
                      entryCost == FMul(st.position, st.entryPrice)
                      pnl       == FSub(FSub(proceeds, entryCost), fee)
                  IN  [marked EXCEPT
                          !.balance = FAdd(@, FSub(proceeds, fee)),
                          !.position = Zero,
                          !.entryPrice = Zero,
                          !.trades = Append(@, [type |-> "sell", price |-> price,
                                                time |-> date, amount |-> st.position,
                                                fee |-> fee, pnl |-> pnl])]
             ELSE marked

\* variant of firstBar: the first bar after the warm-up is passed over
firstBar_late == warmup + 2

\* let i = warmup, with the bars counted from 1 here
firstBar == warmup + 1

\* for (let i = warmup; i < fullData.length; i++), bars counted from 1 here;
\* n is fullData.length (asking for the fields of st, of which there always are
\* some, makes TLC compute each iteration before it starts the next)
RECURSIVE simLoop(_, _, _, _)
simLoop(fullData, n, i, st) ==
    IF i > n \/ DOMAIN st = {} THEN st
    ELSE simLoop(fullData, n, i + 1, simBar(st, fullData[i]))

\* variant of forceClose: a position open after the last bar is left open
forceClose_skipped(st, fullData, n) == st

\* Finalize (Close open position)
forceClose(st, fullData, n) ==
    IF FGt(st.position, Zero)
    THEN LET lastCandle == fullData[n]
             lastPrice  == lastCandle.close
             proceeds   == FMul(st.position, lastPrice)
             fee        == FMul(proceeds, R(1, 1000))
             entryCost  == FMul(st.position, st.entryPrice)
             pnl        == FSub(FSub(proceeds, entryCost), fee)
         IN  [st EXCEPT
                 !.balance = FAdd(@, FSub(proceeds, fee)),
                 !.position = Zero,
                 !.trades = Append(@, [type |-> "sell", price |-> lastPrice,
                                       time |-> lastCandle.timestamp,
                                       amount |-> st.position, fee |-> fee,
                                       pnl |-> pnl, note |-> "force_close"])]
    ELSE st

\* trades.filter(t => t.type === 'sell')
sellTrades(trades) == SelectSeq(trades, LAMBDA t : t.type = "sell")

\* reduce((acc, t) => acc + t.pnl, 0)
RECURSIVE sumPnl(_)
sumPnl(ts) ==
    IF ts = <<>> THEN Zero
    ELSE FAdd(sumPnl(SubSeq(ts, 1, Len(ts) - 1)), ts[Len(ts)].pnl)

\* the IBacktestResult built from the final state, but for chartData: the
\* enriched candles handed back for charting are not followed
simResult(st) ==
    LET sells       == sellTrades(st.trades)
        totalTrades == Len(sells)
        winners     == SelectSeq(sells, LAMBDA t : FGt(t.pnl, Zero))
        losers      == SelectSeq(sells, LAMBDA t : FLt(t.pnl, Zero))
        grossProfit == sumPnl(winners)
        lossSum     == sumPnl(losers)
        grossLoss   == IF FLt(lossSum, Zero) THEN FNeg(lossSum) ELSE lossSum
    IN  [totalTrades  |-> totalTrades,
         winRate      |-> IF totalTrades > 0
                          THEN FMul(FDiv(R(Len(winners), 1), R(totalTrades, 1)), R(100, 1))
                          ELSE Zero,
         profitFactor |-> IF FGt(grossLoss, Zero) THEN FDiv(grossProfit, grossLoss)
                          ELSE IF FGt(grossProfit, Zero) THEN R(999, 1) ELSE Zero,
         maxDrawdown  |-> st.maxDrawdown,
         sharpeRatio  |-> Zero,
         trades       |-> st.trades,
         equityCurve  |-> st.equityCurve]

\* variant of handedAfter: populateIndicators hands back the candles it was
\* given, so the signals are written onto them
handedAfter_inPlace(candles, fullData) == fullData

\* the candles handed to the strategy, as its three methods leave them:
\* populateIndicators builds new candles with { ...c }, and the signals are
\* written onto those
handedAfter(candles, fullData) == candles

\* run(config, strategy) on the series it was given or has fetched
run(config, s, candles) ==
    IF noData(candles)
    THEN [status |-> "error", error |-> "No historical data found for range.",
          calls |-> <<>>, handed |-> candles]
    ELSE LET withIndicators == populateIndicators(s, candles)
             withBuy        == populateBuyTrend(s, withIndicators)
             fullData       == populateSellTrend(s, withBuy)
             \* the three methods hand back one candle for each candle given
             n              == Len(candles)
             start          == [balance |-> openingBalance(config), position |-> Zero,
                                equityCurve |-> <<>>, trades |-> openingTrades,
                                entryPrice |-> Zero,
                                maxEquity |-> openingBalance(config),
                                maxDrawdown |-> Zero]
             closed         == forceClose(simLoop(fullData, n, firstBar, start),
                                          fullData, n)
         IN  [status |-> "ok", result |-> simResult(closed),
              closing |-> closed.balance, held |-> closed.position,
              handed |-> handedAfter(candles, fullData),
              calls |-> <<"populateIndicators", "populateBuyTrend", "populateSellTrend">>]

(***************************************************************************)
(* Simulation requests: one GridStrategy instance, reused from run to run  *)
(***************************************************************************)
\* two closes; the bars before the tail of a series all close high
HighClose == R(99099, 1)

LowClose == R(98901, 1)

Closes == {HighClose, LowClose}

\* the longest tail of bars after the warm-up bars of a provided series
MaxTail == 2

RECURSIVE TailsOf(_)
TailsOf(n) ==
    IF n = 0 THEN {<<>>}
    ELSE TailsOf(n - 1) \cup {Append(t, c) : t \in TailsOf(n - 1), c \in Closes}

Flat(n) == [i \in 1..n |-> HighClose]

\* one-hour bars
BarSeconds == 3600

\* a series as config.data carries it
Bars(closes) ==
    [i \in DOMAIN closes |-> [timestamp |-> i * BarSeconds * 1000, close |-> closes[i]]]

\* a series as the exchange serves it
RawBars(closes) ==
    [i \in DOMAIN closes |-> [time |-> i * BarSeconds, close |-> closes[i]]]

SeriesChoices == {<<>>} \cup {Bars(Flat(warmup) \o t) : t \in TailsOf(MaxTail)}

\* fewer bars than a page has
ShortHistory == RawBars(Flat(warmup) \o <<LowClose, HighClose>>)

\* fewer bars than the warm-up takes
TinyHistory == RawBars(<<LowClose, HighClose, LowClose>>)

\* a page and three bars more
LongHistory == RawBars(Flat(PageLimit + 1) \o <<LowClose, HighClose>>)

\* parameter objects handed to setParameters
ParamChoices ==
    {[lowerPrice |-> R(99000, 1), upperPrice |-> R(100000, 1), gridLines |-> 1,
      amountPerGrid |-> R(100, 1)],
     [lowerPrice |-> R(90000, 1), upperPrice |-> R(95000, 1), gridLines |-> 2,
      amountPerGrid |-> R(100, 1)]}

\* IBacktestConfig: data is <<series>> when given and <<>> when left out
ConfigsWith(dataChoices) ==
    [initialBalance : {R(10000, 1)},
     startDate : {0},
     endDate : {200 * BarSeconds * 1000},
     data : dataChoices]

ConfigChoices == ConfigsWith({<<>>} \cup {<<series>> : series \in SeriesChoices})

\* requests that leave the bars to be fetched
FetchingConfigs == ConfigsWith({<<>>})

traderVars == <<coins, feed, activeTrades, fills, idx, evaluated, ev, failed, now, dcaBuys,
                cfg, overlap>>

\* no trader has been started
TraderStopped ==
    /\ coins = <<>>
    /\ feed = {}
    /\ activeTrades = <<>>
    /\ fills = [c \in CoinSet |-> <<>>]
    /\ idx = 0
    /\ evaluated = <<>>
    /\ ev = NoEvaluation
    /\ failed = [c \in CoinSet |-> {}]
    /\ now = 0
    /\ dcaBuys = [c \in CoinSet |-> <<>>]
    /\ cfg = UsualTrading
    /\ overlap = NoOverlap

\* callers either hand in one or two kinds of request while the exchange holds
\* a short history, or leave the fetching to the engine while it holds none, a
\* tiny or a long one
InitSim ==
    /\ TraderStopped
    /\ strategy = GridDefaults
    /\ \/ history = ShortHistory /\ requests \in {{a, b} : a, b \in ConfigChoices}
       \/ history \in {<<>>, TinyHistory, LongHistory} /\ requests = FetchingConfigs
    /\ outcome = NoOutcome
    /\ kept = <<>>
    /\ opt = NoSearch

\* strategy.setParameters(params) between two runs
SetParameters ==
    /\ \E params \in ParamChoices : strategy' = setParameters(strategy, params)
    /\ UNCHANGED <<history, requests, outcome, kept, opt, traderVars>>

\* the series run works on: config.data, or what HistoricalData.fetch returns
candlesFor(config) ==
    IF config.data # <<>> THEN {[series |-> config.data[1], failed |-> FALSE]}
    ELSE fetch(history, config.startDate, config.endDate)

\* engine.run(config, strategy); the run before it may be remembered
Run ==
    \E config \in requests :
        \E f \in candlesFor(config) :
          \E done \in {[status |-> "done",
                        input |-> [config |-> config, strategy |-> strategy,
                                   series |-> f.series],
                        fetchFailed |-> f.failed,
                        run |-> run(config, strategy, f.series)]} :
           \E keep \in BOOLEAN :
            /\ outcome' = done
            /\ kept' = IF keep /\ outcome.status = "done"
                       THEN <<[input |-> outcome.input, run |-> outcome.run,
                               between |-> FALSE]>>
                       ELSE IF kept # <<>> THEN <<[kept[1] EXCEPT !.between = TRUE]>>
                       ELSE kept
            /\ UNCHANGED <<strategy, history, requests, opt, traderVars>>

NextSim == SetParameters \/ Run

SpecSim == InitSim /\ [][NextSim]_vars

(***************************************************************************)
(* HyperOpt.optimize: the genetic search over strategy parameters          *)
(***************************************************************************)
\* the largest populationSize explored
MaxPopulation == 5

\* the largest number of generations explored
MaxGenerations == 2

\* StrategyFactory.get(name): <<a new instance>> of the registered class, or
\* <<>> for undefined; MACDStrategy has no setParameters method
StrategyFactoryGet(name) ==
    IF name = "GridStrategy"
    THEN <<[name |-> "GridStrategy", setParameters |-> TRUE, fields |-> GridDefaults]>>
    ELSE IF name = "MACDStrategy"
    THEN <<[name |-> "MACD Crossover", setParameters |-> FALSE]>>
    ELSE <<>>

\* variant of unsupported: every name is taken to support the search
unsupported_never(template) == FALSE

\* if (!strategyTemplate || !strategyTemplate.setParameters)
unsupported(template) == template = <<>> \/ ~template[1].setParameters

\* Math.round on a number: the nearest whole number, halves going up
FRound(a) ==
    IF a.d = 0 THEN a ELSE [n |-> (2 * a.n + a.d) \div (2 * a.d), d |-> 1]

\* what Math.random() returns in the draws that are followed
RandomChoices == {R(1, 4), R(3, 4)}

\* range.min + Math.random() * (range.max - range.min), rounded to the step
\* when there is one and to a whole number when there is none
drawValue(range, r) ==
    LET val == FAdd(range.min, FMul(r, FSub(range.max, range.min)))
    IN  IF "step" \in DOMAIN range /\ Truthy(range.step)
        THEN FMul(FRound(FDiv(val, range.step)), range.step)
        ELSE FRound(val)

\* the individuals the draws can make for a parameter space
Individuals(space) ==
    {[k \in DOMAIN space |-> drawValue(space[k], draws[k])] :
        draws \in [DOMAIN space -> RandomChoices]}

\* generatePopulation(size, space): every population the draws can make
generatePopulation(size, space) ==
    {SubSeq(pop, 1, size) : pop \in [1..size -> Individuals(space)]}

\* crossover(p1, p2, space) with both parents picked among the survivors: the
\* children it can make, or none when reading a gene of a missing parent throws
crossover(survivors, space) ==
    IF survivors = <<>>
    THEN IF DOMAIN space = {} THEN {[k \in DOMAIN space |-> Zero]} ELSE {}
    ELSE {[k \in DOMAIN space |-> IF fromFirst[k] THEN survivors[i][k] ELSE survivors[j][k]] :
             i \in DOMAIN survivors, j \in DOMAIN survivors,
             fromFirst \in [DOMAIN space -> BOOLEAN]}

\* mutate(ind, space, rate) past its first return: with no key in the space
\* the picked key is undefined and reading range.min throws
mutateThrows(space) == DOMAIN space = {}

\* mutate(ind, space, rate): the individual itself, or a copy with one gene
\* drawn again
mutate(ind, space) ==
    {ind} \cup {[ind EXCEPT ![key] = drawValue(space[key], r)] :
                   key \in DOMAIN space, r \in RandomChoices}

\* variant of backtestConfig: the fetched bars are not put into the config
backtestConfig_noData(config, candles) ==
    [initialBalance |-> R(10000, 1), startDate |-> config.startDate,
     endDate |-> config.endDate, data |-> <<>>]

\* the config handed to every engine.run of the search
backtestConfig(config, candles) ==
    [initialBalance |-> R(10000, 1), startDate |-> config.startDate,
     endDate |-> config.endDate, data |-> <<candles>>]

\* what the loop body makes of a run: the score, the entry pushed to results
\* (which keeps what was evaluated, and the cash the run ended with, next to
\* its score) and the best result
fitness(s1, params, best, r, fetches) ==
    IF r.status = "error"
    THEN [strategy |-> s1, best |-> best, candles |-> r.handed,
          entry |-> [params |-> params, score |-> R(-10000, 1), threw |-> TRUE,
                     returned |-> <<>>, closing |-> <<>>, fetches |-> fetches]]
    ELSE IF r.result.equityCurve = <<>>
    \* result.equityCurve[-1] is undefined and reading its value throws
    THEN [strategy |-> s1, best |-> best, candles |-> r.handed,
          entry |-> [params |-> params, score |-> R(-10000, 1), threw |-> TRUE,
                     returned |-> <<r.result>>, closing |-> <<r.closing>>,
                     fetches |-> fetches]]
    ELSE LET finalEquity == r.result.equityCurve[Len(r.result.equityCurve)].value
             profit      == FSub(finalEquity, R(10000, 1))
             score       == IF r.result.totalTrades > 5 THEN profit ELSE R(-5000, 1)
         IN  [strategy |-> s1, candles |-> r.handed,
              best |-> IF best = <<>> \/ FGt(score, best[1].score)
                       THEN <<[score |-> score, params |-> params,
                               result |-> r.result]>>
                       ELSE best,
              entry |-> [params |-> params, score |-> score, threw |-> FALSE,
                         returned |-> <<r.result>>, closing |-> <<r.closing>>,
                         fetches |-> fetches]]

\* let candles = config.data; if (!candles) candles = await
\* HistoricalData.fetch(...): the bars a run works on, a fetch made by a run
\* being taken as answered in full
seriesOf(bc) ==
    IF bc.data # <<>> THEN bc.data[1]
    ELSE (CHOOSE f \in fetch(history, bc.startDate, bc.endDate) : ~f.failed).series

\* the fetches a run makes
fetchesOf(bc) == IF bc.data # <<>> THEN 0 ELSE 1

\* engine.run(backtestConfig, strategyTemplate) and the scoring of its result
scored(s1, params, best, bc) ==
    fitness(s1, params, best, run(bc, s1, seriesOf(bc)), fetchesOf(bc))

\* setParameters on the reused template, then engine.run on the fetched bars
runWith(s1, params, config, candles, best) ==
    scored(s1, params, best, backtestConfig(config, candles))

\* one pass of the loop over the population
evaluate(s, params, config, candles, best) ==
    runWith(setParameters(s, params), params, config, candles, best)

\* the loop goes on with what the pass has left
RECURSIVE evaluateNext(_, _, _, _, _)
RECURSIVE evaluateAll(_, _, _, _, _, _)
\* (the bars are the array every run is handed, as the run before left it)
evaluateNext(population, config, candles, results, e) ==
    evaluateAll(population, config, e.candles, e.strategy, e.best, Append(results, e.entry))

\* for (const params of population)
evaluateAll(population, config, candles, s, best, results) ==
    IF Len(results) = Len(population)
    THEN [strategy |-> s, best |-> best, results |-> results, candles |-> candles]
    ELSE evaluateNext(population, config, candles, results,
                      evaluate(s, population[Len(results) + 1], config, candles, best))

\* results.sort((a, b) => b.score - a.score): highest score first, equal scores
\* in the order they had
sortByScore(results) ==
    LET n    == Len(results)
        rank == SubSeq([i \in 1..n |->
                          Cardinality({j \in 1..n :
                              \/ FGt(results[j].score, results[i].score)
                              \/ results[j].score = results[i].score /\ j < i})],
                       1, n)
    IN  SubSeq([k \in 1..n |-> results[CHOOSE i \in 1..n : rank[i] = k - 1]], 1, n)

\* results.reduce((a, b) => a + b.score, 0)
RECURSIVE sumScore(_)
sumScore(results) ==
    IF results = <<>> THEN Zero
    ELSE FAdd(sumScore(SubSeq(results, 1, Len(results) - 1)), results[Len(results)].score)

\* the fetches made by the runs of a generation
RECURSIVE fetchCount(_)
fetchCount(results) ==
    IF results = <<>> THEN 0
    ELSE fetchCount(SubSeq(results, 1, Len(results) - 1)) + results[Len(results)].fetches

\* the populations the loop body can leave: survivors, then offspring made by
\* crossover until the population is refilled, then mutate on every one
nextPopulations(survivors, size, space) ==
    LET children == crossover(survivors, space)
        missing  == size - Len(survivors)
    IN  {SubSeq(pop, 1, size) :
            pop \in {q \in [1..size -> Individuals(space) \cup children] :
                        \A i \in 1..size :
                            \E base \in (IF i <= Len(survivors) THEN {survivors[i]}
                                         ELSE children) :
                                q[i] \in mutate(base, space)}}

\* HyperOptConfig: parameterSpace maps each name to its range
NoSpace == <<>>

LowerPriceSpace ==
    [lowerPrice |-> [min |-> R(99000, 1), max |-> R(99200, 1), step |-> R(200, 1)]]

\* a space whose step is wider than the range: min <= max and step > 0
OffStepSpace ==
    [lowerPrice |-> [min |-> R(99050, 1), max |-> R(99150, 1), step |-> R(200, 1)]]

\* a space whose lowest step is the value 0
ZeroSpace ==
    [lowerPrice |-> [min |-> Zero, max |-> R(132000, 1), step |-> R(99000, 1)]]

\* the searches asked for; more than one generation is followed where every
\* individual is the same, the off-step space with one individual and the
\* space with 0 with a full population
SearchChoices ==
    {c \in [strategyName : {"GridStrategy", "MACDStrategy", "Unlisted"},
            startDate : {0},
            endDate : {200 * BarSeconds * 1000},
            populationSize : {1, 2, MaxPopulation},
            generations : 1..MaxGenerations,
            parameterSpace : {NoSpace, LowerPriceSpace, OffStepSpace, ZeroSpace}] :
        /\ c.generations = 1 \/ c.parameterSpace = NoSpace
        /\ c.parameterSpace = OffStepSpace => c.populationSize = 1
        /\ c.parameterSpace = ZeroSpace => c.populationSize = MaxPopulation
        /\ c.parameterSpace \in {OffStepSpace, ZeroSpace} => c.strategyName = "GridStrategy"}

\* k times a low close followed by a high close
RECURSIVE Trips(_)
Trips(k) == IF k = 0 THEN <<>> ELSE Trips(k - 1) \o <<LowClose, HighClose>>

\* closes of a crash to below a fifth of the price and back: down through the
\* line, on to 19549.5, up to 39099 and back to the high close
Crash == <<LowClose, R(39099, 2), R(39099, 1), HighClose>>

\* what the exchange may hold: nothing, the warm-up bars only, bars that
\* take the grid from its lowest line down and up again five and six times,
\* and a crash followed by five such trips
SearchHistories ==
    {<<>>, RawBars(Flat(warmup)), RawBars(Flat(warmup) \o Trips(5)),
     RawBars(Flat(warmup) \o Trips(6)), RawBars(Flat(warmup) \o Crash \o Trips(5))}

InitOpt ==
    /\ TraderStopped
    /\ strategy = GridDefaults
    /\ history \in SearchHistories
    /\ requests = {}
    /\ outcome = NoOutcome
    /\ kept = <<>>
    /\ opt = NoSearch

\* optimize left by a throw
searchFailed(config, error, fetches, log) ==
    [status |-> "failed", config |-> config, error |-> error, fetches |-> fetches,
     log |-> log]

\* optimize(config) up to the first generation: the strategy lookup, the one
\* fetch, the first population
Optimize ==
    /\ opt.status = "idle"
    /\ \E config \in SearchChoices :
         LET template == StrategyFactoryGet(config.strategyName)
         IN  IF unsupported(template)
             THEN opt' = searchFailed(config, "does not support parameter optimization",
                                      0, <<>>)
             ELSE \E f \in fetch(history, config.startDate, config.endDate) :
                    IF Len(f.series) = 0
                    THEN opt' = searchFailed(config, "No data for optimization", 1, <<>>)
                    ELSE \E population \in generatePopulation(config.populationSize,
                                                              config.parameterSpace) :
                           opt' = [status |-> "running", config |-> config,
                                   template |-> template, candles |-> f.series,
                                   fetched |-> f.series, fetchFailed |-> f.failed,
                                   population |-> population, gen |-> 0,
                                   best |-> <<>>, evolution |-> <<>>, log |-> <<>>,
                                   fetches |-> 1]
    /\ UNCHANGED <<strategy, history, requests, outcome, kept, traderVars>>

\* one generation: every individual evaluated, the statistics, the survivors,
\* the offspring and the mutation
Generation ==
    /\ opt.status = "running"
    /\ opt.gen < opt.config.generations
    /\ IF opt.template = <<>> \/ ~opt.template[1].setParameters
       \* strategyTemplate.setParameters is not a function
       THEN opt' = searchFailed(opt.config, "TypeError", opt.fetches, opt.log)
       ELSE \E e \in {evaluateAll(opt.population, opt.config, opt.candles,
                                  opt.template[1].fields, opt.best, <<>>)} :
            \E results \in {sortByScore(e.results)} :
              LET size      == opt.config.populationSize
                  space     == opt.config.parameterSpace
                  bestScore == results[1].score
                  avgScore  == FDiv(sumScore(results), R(Len(results), 1))
                  survivors == SubSeq([i \in 1..Len(results) |-> results[i].params],
                                      1, (size * 2) \div 10)
                  log       == Append(opt.log, e.results)
              IN  \E next \in {nextPopulations(survivors, size, space)} :
                    IF next = {}
                    \* crossover reads a gene of an undefined parent
                    THEN opt' = searchFailed(opt.config, "TypeError",
                                             opt.fetches + fetchCount(e.results), log)
                    ELSE \/ /\ mutateThrows(space)
                            /\ opt' = searchFailed(opt.config, "TypeError",
                                                    opt.fetches + fetchCount(e.results), log)
                         \/ \E population \in next :
                           opt' = [opt EXCEPT
                                     !.template = <<[opt.template[1] EXCEPT
                                                       !.fields = e.strategy]>>,
                                     !.population = population,
                                     !.candles = e.candles,
                                     !.fetches = @ + fetchCount(e.results),
                                     !.gen = @ + 1,
                                     !.best = e.best,
                                     !.evolution = Append(@, [generation |-> opt.gen + 1,
                                                              bestScore |-> bestScore,
                                                              avgScore |-> avgScore]),
                                     !.log = log]
    /\ UNCHANGED <<strategy, history, requests, outcome, kept, traderVars>>

\* the value optimize resolves to; <<>> stands for undefined and null
searchResult(best, evolution) ==
    [bestParams |-> IF best = <<>> THEN <<>> ELSE <<best[1].params>>,
     bestScore  |-> IF best = <<>> THEN <<>> ELSE <<best[1].score>>,
     evolution  |-> evolution,
     bestResult |-> IF best = <<>> THEN <<>>
                    ELSE <<[totalTrades  |-> best[1].result.totalTrades,
                            winRate      |-> best[1].result.winRate,
                            profitFactor |-> best[1].result.profitFactor,
                            maxDrawdown  |-> best[1].result.maxDrawdown,
                            equityCurve  |-> best[1].result.equityCurve]>>]

\* the loop is left and optimize returns
Return ==
    /\ opt.status = "running"
    /\ opt.gen = opt.config.generations
    /\ opt' = [status |-> "done", config |-> opt.config, fetches |-> opt.fetches,
               fetchFailed |-> opt.fetchFailed, candles |-> opt.candles,
               fetched |-> opt.fetched, log |-> opt.log, value |-> searchResult(opt.best, opt.evolution)]
    /\ UNCHANGED <<strategy, history, requests, outcome, kept, traderVars>>

NextOpt == Optimize \/ Generation \/ Return

SpecOpt == InitOpt /\ [][NextOpt]_vars

(***************************************************************************)
(* Properties                                                              *)
(***************************************************************************)
HasPosition(c) == c \in DOMAIN activeTrades

Evaluated == ev.coin # ""

OrdersOfType(type) == {i \in DOMAIN ev.orders : ev.orders[i].type = type}

\* C1: once trailing has been activated for a position, its trailLine never
\* decreases from one evaluation to the next for as long as the position
\* exists, whatever prices are reported and whatever trailing gap each
\* evaluation reads from the configuration.
C1_TrailLineNeverDecreases ==
    [][\A c \in CoinSet :
          (HasPosition(c) /\ activeTrades[c].trailActive /\ c \in DOMAIN activeTrades')
              => FLe(activeTrades[c].trailLine, activeTrades'[c].trailLine)]_vars

\* C1 witness: an active trailing stop saw a new peak under a wider gap, whose
\* line would have been lower than the one in place, and the position stayed open.
C1_Witness ==
    /\ Evaluated
    /\ ev.pre # <<>>
    /\ ev.pre[1].trailActive
    /\ ev.trail # <<>>
    /\ ev.trail[1].gap # <<>>
    /\ FGt(ev.price[1], ev.pre[1].trailPeak)
    /\ FLt(lineFor(ev.price[1], ev.trail[1].gap[1]), ev.pre[1].trailLine)
    /\ HasPosition(ev.coin)
    /\ activeTrades[ev.coin].trailLine = ev.pre[1].trailLine

RECURSIVE SumCost(_)
SumCost(fs) ==
    IF fs = <<>> THEN Zero
    ELSE FAdd(SumCost(SubSeq(fs, 1, Len(fs) - 1)),
              FMul(fs[Len(fs)].price, fs[Len(fs)].amount))

\* C2: for every position, after its entry fill and any number of scale-in
\* fills, avgPrice * amount equals the sum of fillPrice * fillQuantity over
\* all of its fills, exactly (for a position entered at a reported price of 0
\* both sides are the same undefined product of 0 and Infinity).
C2_AverageIsVolumeWeightedMean ==
    \A c \in CoinSet :
        HasPosition(c) =>
            /\ Len(fills[c]) = activeTrades[c].dcaCount + 1
            /\ FMul(activeTrades[c].avgPrice, activeTrades[c].amount) = SumCost(fills[c])

\* C2 witness: a position with two scale-ins at two different prices, both
\* different from its entry price.
C2_Witness ==
    \E c \in CoinSet :
        /\ HasPosition(c)
        /\ activeTrades[c].dcaCount = 2
        /\ fills[c][1].price # fills[c][2].price
        /\ fills[c][2].price # fills[c][3].price
        /\ fills[c][3].price # Zero
        /\ activeTrades[c].avgPrice.d > 1

\* C3: a coin has at most one position, opened by exactly one entry buy; an
\* entry buy is issued only by an evaluation that found no position for the
\* coin and a true entry signal on the latest candle, and only such an
\* evaluation creates a position; an evaluation that found a position issues
\* no entry buy.
C3_SingleEntryFromFlat ==
    /\ \A c \in CoinSet :
          /\ HasPosition(c) <=> fills[c] # <<>>
          /\ \A i \in DOMAIN fills[c] : (fills[c][i].type = "entry") <=> (i = 1)
    /\ Evaluated =>
          /\ OrdersOfType("entry") # {} => (ev.pre = <<>> /\ ev.candles = "signal")
          /\ (ev.pre = <<>> /\ HasPosition(ev.coin)) =>
                /\ ev.candles = "signal"
                /\ \E i \in OrdersOfType("entry") : ev.orders[i].ok
          /\ ev.pre # <<>> => OrdersOfType("entry") = {}

\* C3 witness: an evaluation found a position and a true signal on the latest
\* candle, and the position it leaves is still the one opened earlier.
C3_Witness ==
    /\ Evaluated
    /\ ev.pre # <<>>
    /\ ev.candles = "signal"
    /\ HasPosition(ev.coin)
    /\ Len(fills[ev.coin]) >= 2

\* the position of a coin after the latest evaluation, <<>> when it has none
Post(c) == IF HasPosition(c) THEN <<activeTrades[c]>> ELSE <<>>

\* the part of a position that orders act on
Core(pos) ==
    IF pos = <<>> THEN <<>>
    ELSE <<[amount |-> pos[1].amount, avgPrice |-> pos[1].avgPrice,
            dcaCount |-> pos[1].dcaCount]>>

\* the scale-in condition in the words of the specification
ScaleInDue(p, price) ==
    LET pnl   == FMul(FDiv(FSub(price, p.avgPrice), p.avgPrice), R(100, 1))
        level == IF p.dcaCount + 1 <= Len(dcaLevels) THEN dcaLevels[p.dcaCount + 1]
                 ELSE dcaLevels[Len(dcaLevels)]
    IN  FLt(pnl, Zero) /\ p.dcaCount < maxDcaBuys /\ FLe(pnl, level)

Triggered(type) ==
    /\ ev.price # <<>>
    /\ CASE type = "entry" -> ev.pre = <<>> /\ ev.candles = "signal"
         [] type = "strategy_signal" -> ev.pre # <<>> /\ ev.candles = "signal"
         [] type = "dca" ->
                ev.pre # <<>> /\ ev.candles # "signal" /\ ScaleInDue(ev.pre[1], ev.price[1])
         [] type = "trailing_stop" ->
                /\ ev.trail # <<>>
                /\ ev.trail[1].position.trailActive
                /\ FLt(ev.price[1], ev.trail[1].position.trailLine)
         [] OTHER -> FALSE

\* C6: an order the order collaborator rejects (entry, scale-in, trailing exit
\* or signal exit) leaves the coin's position (existence, amount, avgPrice,
\* dcaCount) as it was before the attempt, and the same kind of order is
\* placed again in the coin's next evaluation that comes to decide it and
\* finds its condition true.
C6_RejectedOrderChangesNothing ==
    Evaluated =>
        /\ \A i \in DOMAIN ev.orders :
              ~ev.orders[i].ok => Core(ev.orders[i].after) = Core(ev.orders[i].before)
        /\ (ev.orders # <<>> /\ \A i \in DOMAIN ev.orders : ~ev.orders[i].ok)
              => Core(Post(ev.coin)) = Core(ev.pre)
        /\ \A type \in ev.prevFailed : Triggered(type) => OrdersOfType(type) # {}

\* C6 witness: the entry buy was rejected in the coin's previous evaluation, is
\* placed and rejected again in this one, and the coin still has no position.
C6_Witness ==
    /\ Evaluated
    /\ "entry" \in ev.prevFailed
    /\ \E i \in OrdersOfType("entry") : ~ev.orders[i].ok
    /\ ev.pre = <<>>
    /\ ~HasPosition(ev.coin)

\* C7: when no price is available for the coin (fetchTicker rejects, or the
\* connector reports its failure as the price 0), the evaluation places no
\* order and leaves the coin's position as it was.
C7_NoPriceNoTransition ==
    (Evaluated /\ (ev.price = <<>> \/ ev.price = <<Zero>>)) =>
        /\ ev.orders = <<>>
        /\ Post(ev.coin) = ev.pre

\* C8: when the trade-log write throws after an order was accepted, the
\* position reflects the order: it exists after an entry, carries the scale-in
\* after a scale-in, and is gone after an exit.
C8_LogFailureKeepsDecision ==
    Evaluated =>
        \A i \in DOMAIN ev.orders :
            (ev.orders[i].ok /\ ~ev.orders[i].logged) =>
                IF ev.orders[i].side = "sell" THEN ~HasPosition(ev.coin)
                ELSE /\ HasPosition(ev.coin)
                     /\ Core(Post(ev.coin)) = Core(ev.orders[i].after)

\* C9: within a firing the coins are evaluated one after another in the
\* configured order, whatever errors their evaluations raise: the coins
\* evaluated so far are always the first ones of the list, the firing ends only
\* after the last coin, and the timer can then fire again.
C9_EveryCoinInOrder ==
    /\ Len(evaluated) <= Len(coins)
    /\ evaluated = SubSeq(coins, 1, Len(evaluated))
    /\ idx > 0 => Len(evaluated) = idx - 1
    /\ (idx = 0 /\ Evaluated) => evaluated = coins
    /\ idx = 0 => ENABLED TimerFires

\* C9 witness: a firing over two coins has ended; the first coin's evaluation
\* had an order rejected and the second coin's evaluation raised an error whose
\* alert could not be delivered.
C9_Witness ==
    /\ idx = 0
    /\ Len(coins) = 2
    /\ evaluated = coins
    /\ failed[coins[1]] # {}
    /\ ev.coin = coins[2]
    /\ \E j \in DOMAIN ev.reports : ~ev.reports[j].delivered

\* C10: every order that failed in an evaluation was caught by a handler that
\* logs the error and reports it to the alerting collaborator.
C10_FailedOrdersReported ==
    Evaluated =>
        Cardinality({i \in DOMAIN ev.orders : ~ev.orders[i].ok})
            <= Cardinality({j \in DOMAIN ev.reports : ev.reports[j].cause = "order"})

\* C11: for every symbol, at most maxDcaBuys scale-in buys are executed within
\* any rolling window of 24 hours, however many positions were opened and
\* closed for it in the window.  The first TicksPerDay firings lie within the
\* first 24 hours after start-up, so the buys counted there share one window.
C11_ScaleInsPerDay ==
    now <= TicksPerDay => \A c \in CoinSet : Len(dcaBuys[c]) <= maxDcaBuys

(***************************************************************************)
(* Simulation Engine claims (SpecSim)                                      *)
(***************************************************************************)
\* the latest run and the remembered run were given the same configuration,
\* the same strategy parameters and the same bar series
SameInputs ==
    /\ outcome.status = "done"
    /\ kept # <<>>
    /\ kept[1].input = outcome.input

NoBuySignalAnywhere(input) ==
    LET marked == populateBuyTrend(input.strategy,
                                   populateIndicators(input.strategy, input.series))
    IN  \A i \in 1..Len(input.series) :
            ~("buy_signal" \in DOMAIN marked[i] /\ marked[i].buy_signal)

\* C13: when the strategy gives no buy signal on any bar of the series, the
\* result has totalTrades 0, no fills at all, and every value of the equity
\* curve equals the initial capital.  Stated from the result backwards: a run
\* ends that way unless some bar carries a buy signal.
C13_NoSignalNoTrade ==
    (outcome.status = "done" /\ outcome.run.status = "ok")
    => \/ /\ outcome.run.result.totalTrades = 0
          /\ outcome.run.result.trades = <<>>
          /\ \A k \in DOMAIN outcome.run.result.equityCurve :
                 outcome.run.result.equityCurve[k].value
                     = outcome.input.config.initialBalance
       \/ ~NoBuySignalAnywhere(outcome.input)

\* a signal-free series with bars after the warm-up has been replayed
C13_Witness ==
    /\ outcome.status = "done"
    /\ outcome.run.status = "ok"
    /\ NoBuySignalAnywhere(outcome.input)
    /\ Len(outcome.run.result.equityCurve) >= 2
    /\ outcome.run.result.totalTrades = 0

\* C14: a run whose provided or fetched series is empty fails with the
\* insufficient-data error and produces no result, before any strategy
\* method is invoked.
C14_EmptySeriesFails ==
    (outcome.status = "done" /\ Len(outcome.input.series) = 0)
    => /\ outcome.run.status = "error"
       /\ outcome.run.error = "No historical data found for range."
       /\ "result" \notin DOMAIN outcome.run
       /\ outcome.run.calls = <<>>

\* the engine fetched the bars itself and got none
C14_Witness ==
    /\ outcome.status = "done"
    /\ outcome.input.config.data = <<>>
    /\ ~outcome.fetchFailed
    /\ Len(outcome.input.series) = 0
    /\ outcome.run.status = "error"

\* C20: an error while the historical bars are fetched, on any chunk, makes
\* the request fail; the simulation never proceeds on a partially fetched
\* series.
C20_FetchErrorFailsRequest ==
    (outcome.status = "done" /\ outcome.fetchFailed) => outcome.run.status = "error"

(***************************************************************************)
(* Parameter Search claims (SpecOpt)                                       *)
(***************************************************************************)
\* every individual evaluated so far, generation by generation
EvaluatedEntries ==
    IF opt.status = "idle" THEN {}
    ELSE {opt.log[g][i] : g \in DOMAIN opt.log, i \in 1..opt.config.populationSize}

\* C15: the bestScore optimize returns is at least the fitness of every
\* individual evaluated in any generation, the penalised ones included.
C15_BestScoreDominates ==
    opt.status = "done" =>
        \A e \in EvaluatedEntries :
            /\ opt.value.bestScore # <<>>
            /\ FGe(opt.value.bestScore[1], e.score)

\* C16: every individual whose simulation has totalTrades <= 5 receives the
\* same fixed penalty whatever its equity, and totalTrades = 6 is the smallest
\* count that is scored by profit.
C16_FewTradesPenalised ==
    \A e \in EvaluatedEntries :
        e.returned # <<>> =>
            IF e.returned[1].totalTrades <= 5 THEN e.score = R(-5000, 1)
            ELSE e.score
                   = FSub(e.returned[1].equityCurve[Len(e.returned[1].equityCurve)].value,
                          R(10000, 1))

\* the factory knows no strategy of that name, or one without setParameters
NotOptimizable(name) ==
    StrategyFactoryGet(name) = <<>> \/ ~StrategyFactoryGet(name)[1].setParameters

\* C17: optimize fails with the unsupported-strategy error when the named
\* strategy is unknown or has no setParameters, before any data is fetched
\* and before any simulation is run.
C17_UnsupportedFailsFirst ==
    (opt.status # "idle" /\ NotOptimizable(opt.config.strategyName))
    => /\ opt.status = "failed"
       /\ opt.error = "does not support parameter optimization"
       /\ opt.fetches = 0
       /\ opt.log = <<>>

\* a search was asked for MACDStrategy while the exchange holds bars
C17_Witness ==
    /\ opt.status = "failed"
    /\ opt.config.strategyName = "MACDStrategy"
    /\ history # <<>>
    /\ opt.fetches = 0

\* C18: an individual whose simulation throws receives the fixed penalty and
\* is included in the ranking and statistics of its generation, the remaining
\* individuals are still evaluated, and optimize does not fail.
C18_ThrowingIndividualPenalised ==
    (\E e \in EvaluatedEntries : e.threw)
    => /\ \A e \in EvaluatedEntries : e.threw => e.score = R(-10000, 1)
       /\ \A g \in DOMAIN opt.log : Len(opt.log[g]) = opt.config.populationSize
       /\ opt.status # "failed"

\* C19: for every populationSize >= 1 and generationCount >= 1, optimize on a
\* supported strategy with data terminates after exactly generationCount
\* generations, each evaluating exactly populationSize individuals, and
\* returns statistics numbered 1..generationCount plus the best parameters
\* and their SimulationResult.
C19_RunsEveryGeneration ==
    (/\ opt.status \in {"done", "failed"}
     /\ ~NotOptimizable(opt.config.strategyName)
     /\ opt.fetches = 1
     /\ ~(opt.status = "failed" /\ opt.error = "No data for optimization"))
    => /\ opt.status = "done"
       /\ Len(opt.log) = opt.config.generations
       /\ \A g \in DOMAIN opt.log : Len(opt.log[g]) = opt.config.populationSize
       /\ Len(opt.value.evolution) = opt.config.generations
       /\ \A g \in DOMAIN opt.value.evolution : opt.value.evolution[g].generation = g
       /\ opt.value.bestParams # <<>>
       /\ opt.value.bestResult # <<>>

(***************************************************************************)
(* Position Engine claims on the scale-in window and the configuration     *)
(* (SpecWindow, SpecCfg, Spec)                                             *)
(***************************************************************************)
\* the firings at which the scale-ins of the position found by the latest
\* evaluation were accepted
PositionScaleIns ==
    LET all  == dcaBuys[ev.coin]
        last == Len(all) - Cardinality({i \in OrdersOfType("dca") : ev.orders[i].ok})
    IN  SubSeq(all, last - ev.pre[1].dcaCount + 1, last)

\* how many of them are less than 24 hours old
RecentScaleIns ==
    Cardinality({i \in DOMAIN PositionScaleIns : now - PositionScaleIns[i] < TicksPerDay})

\* C21: only the scale-ins of the last 24 hours count against the maximum: in
\* an evaluation of a position without an exit signal, whose P&L% is negative
\* and at or below its next level, a scale-in buy is placed when fewer than
\* maxDcaBuys of the position's scale-ins are less than 24 hours old.
C21_OldScaleInsExpire ==
    (/\ Evaluated
     /\ ev.pre # <<>>
     /\ ev.price # <<>>
     /\ ev.candles # "signal"
     /\ RecentScaleIns < maxDcaBuys
     /\ LET pnl == FMul(FDiv(FSub(ev.price[1], ev.pre[1].avgPrice), ev.pre[1].avgPrice),
                        R(100, 1))
        IN  FLt(pnl, Zero) /\ FLe(pnl, nextLevel(ev.pre[1].dcaCount)))
    => OrdersOfType("dca") # {}

\* C22: a position's dcaCount never exceeds the configured
\* max_dca_buys_per_24h, for every configured value from 0 on.
C22_CountWithinConfiguredMaximum ==
    \A c \in CoinSet :
        (HasPosition(c) /\ cfg.max_dca_buys_per_24h # <<>>)
            => activeTrades[c].dcaCount <= cfg.max_dca_buys_per_24h[1]

\* whether the latest evaluation left the trailing step with trailing active
TrailingOn == ev.trail # <<>> /\ ev.trail[1].position.trailActive

C25_SignalExitOnly ==
    (Evaluated /\ ev.pre # <<>> /\ ev.price # <<>> /\ ev.candles = "signal") =>
        /\ Len(ev.orders) >= 1
        /\ ev.orders[1].type = "strategy_signal"
        /\ ev.orders[1].side = "sell"
        /\ ev.orders[1].amount = ev.pre[1].amount
        /\ OrdersOfType("dca") = {}
        /\ ev.trail = <<>>
        /\ (ev.orders[1].ok /\ ev.orders[1].logged) => ~HasPosition(ev.coin)

\* C26: a scale-in accepted while trailing is active turns trailing off: the
\* position it leaves has trailActive = false.
C26_ScaleInResetsTrailing ==
    (/\ Evaluated
     /\ ev.pre # <<>>
     /\ ev.pre[1].trailActive
     /\ \E i \in OrdersOfType("dca") : ev.orders[i].ok
     /\ HasPosition(ev.coin))
    => ~activeTrades[ev.coin].trailActive

\* C27: with an empty dca_levels list no scale-in buy is ever placed: no
\* evaluation places one, and no position has a scale-in fill or a dcaCount
\* above 0.
C27_NoLevelsNoScaleIn ==
    cfg.dca_levels = <<<<>>>> =>
        /\ Evaluated => OrdersOfType("dca") = {}
        /\ \A c \in CoinSet :
              /\ \A i \in DOMAIN fills[c] : fills[c][i].type # "dca"
              /\ HasPosition(c) => activeTrades[c].dcaCount = 0

\* C27 witness: with an empty list, a position below its maximum was seen at a
\* P&L% under -5 without an exit signal, and was left as it was.
C27_Witness ==
    /\ cfg.dca_levels = <<<<>>>>
    /\ Evaluated
    /\ ev.pre # <<>>
    /\ ev.price # <<>>
    /\ ev.candles = "nosignal"
    /\ ev.pre[1].dcaCount < maxDcaBuys
    /\ FLt(pnlPct(ev.pre[1], ev.price[1]), R(-5, 1))
    /\ ev.trail # <<>>
    /\ ev.orders = <<>>
    /\ HasPosition(ev.coin)
    /\ activeTrades[ev.coin] = ev.pre[1]

(***************************************************************************)
(* Simulation Engine and Parameter Search claims on the end of a run       *)
(* (SpecSim, SpecOpt)                                                      *)
(***************************************************************************)
\* the latest run went through and returned a result
RunReturned == outcome.status = "done" /\ outcome.run.status = "ok"

\* the fills of the latest run that are marked as forced
ForcedFills ==
    {i \in DOMAIN outcome.run.result.trades :
        "note" \in DOMAIN outcome.run.result.trades[i]
        /\ outcome.run.result.trades[i].note = "force_close"}

\* C28: a run that is long after its last bar sells the whole held quantity
\* at the last bar's close, charges the 0.1% fee and records that fill as
\* forced, as its last fill; so every run ends holding nothing, its fills
\* alternate buy, sell, and the number of sells equals the number of buys,
\* which is totalTrades.
C28_ForcedCloseLeavesFlat ==
    RunReturned =>
        LET trades == outcome.run.result.trades
            series == outcome.input.series
            last   == series[Len(series)]
            buys   == SelectSeq(trades, LAMBDA t : t.type = "buy")
            sells  == SelectSeq(trades, LAMBDA t : t.type = "sell")
        IN  /\ outcome.run.held = Zero
            /\ \A i \in DOMAIN trades : (trades[i].type = "buy") <=> (i % 2 = 1)
            /\ Len(sells) = Len(buys)
            /\ outcome.run.result.totalTrades = Len(buys)
            /\ ForcedFills \subseteq {Len(trades)}
            /\ \A i \in ForcedFills :
                  /\ trades[i].type = "sell"
                  /\ trades[i].price = last.close
                  /\ trades[i].time = last.timestamp
                  /\ trades[i].amount = trades[i - 1].amount
                  /\ trades[i].fee =
                        FMul(FMul(trades[i].amount, last.close), R(1, 1000))
            /\ \A i \in DOMAIN trades :
                  (trades[i].type = "sell" /\ i \notin ForcedFills)
                      => trades[i].time > trades[i - 1].time

\* C28 witness: a run bought on a bar before the last one, saw no sell signal
\* afterwards, and ended with a forced sell at the last bar's close.
C28_Witness ==
    /\ RunReturned
    /\ ForcedFills # {}
    /\ LET trades == outcome.run.result.trades
           series == outcome.input.series
       IN  /\ trades[Len(trades) - 1].time < series[Len(series)].timestamp
           /\ trades[Len(trades)].price = series[Len(series)].close
    /\ outcome.run.held = Zero

\* C29: for a series of N bars the equity curve has max(0, N - warmup)
\* entries: entry k carries the timestamp of bar warmup + k, so the curve
\* follows the bars in their order and its times ascend when the bars' do.
C29_EquityCurvePerBar ==
    RunReturned =>
        LET curve  == outcome.run.result.equityCurve
            series == outcome.input.series
            N      == Len(series)
        IN  /\ Len(curve) = IF N > warmup THEN N - warmup ELSE 0
            /\ \A k \in DOMAIN curve : curve[k].time = series[warmup + k].timestamp
            /\ (\A i, j \in DOMAIN series :
                    i < j => series[i].timestamp < series[j].timestamp)
               => \A k, l \in DOMAIN curve : k < l => curve[k].time < curve[l].time

\* C29 witness: a run over two bars more than the warm-up takes returned a
\* curve of two entries, carrying the times of the last two bars.
C29_Witness ==
    /\ RunReturned
    /\ Len(outcome.input.series) = warmup + 2
    /\ Len(outcome.run.result.equityCurve) = 2
    /\ outcome.run.result.equityCurve[1].time = outcome.input.series[warmup + 1].timestamp
    /\ outcome.run.result.equityCurve[2].time = outcome.input.series[warmup + 2].timestamp

\* C30: an individual whose simulation returned with totalTrades > 5 scores
\* the cash balance the run ended with, after all its fills and the forced
\* close, minus the initial capital of 10000.
C30_FitnessIsClosingCashProfit ==
    \A e \in EvaluatedEntries :
        (~e.threw /\ e.returned # <<>> /\ e.returned[1].totalTrades > 5)
            => e.score = FSub(e.closing[1], R(10000, 1))

(***************************************************************************)
(* Claims on what one evaluation and one run may do (Spec, SpecSim)        *)
(***************************************************************************)
\* C38: one evaluation of a coin places at most one order; in particular it
\* never has both a scale-in buy and a trailing-stop sell accepted.
C38_OneOrderPerEvaluation ==
    Evaluated =>
        /\ Len(ev.orders) <= 1
        /\ ~(/\ \E i \in OrdersOfType("dca") : ev.orders[i].ok
             /\ \E i \in OrdersOfType("trailing_stop") : ev.orders[i].ok)

\* C39: in every run that returns, the P&L values recorded on the sell fills
\* add up to the cash balance at the end of the run minus the initial
\* capital.
C39_PnlSumsToCashChange ==
    RunReturned =>
        sumPnl(sellTrades(outcome.run.result.trades))
            = FSub(outcome.run.closing, outcome.input.config.initialBalance)

\* the cash balance and the held quantity after the first k fills of a run,
\* worked out from the fills
RECURSIVE CashAfter(_, _, _)
CashAfter(trades, k, initial) ==
    IF k = 0 THEN initial
    ELSE LET t     == trades[k]
             value == FMul(t.amount, t.price)
             cash  == CashAfter(trades, k - 1, initial)
         IN  IF t.type = "buy" THEN FSub(cash, FAdd(value, t.fee))
             ELSE FAdd(cash, FSub(value, t.fee))

RECURSIVE HeldAfter(_, _)
HeldAfter(trades, k) ==
    IF k = 0 THEN Zero
    ELSE IF trades[k].type = "buy"
    THEN FAdd(HeldAfter(trades, k - 1), trades[k].amount)
    ELSE FSub(HeldAfter(trades, k - 1), trades[k].amount)

C34_FetchedOnce ==
    /\ opt.status = "running" => opt.fetches = 1
    /\ opt.status \in {"done", "failed"} =>
          opt.fetches = IF NotOptimizable(opt.config.strategyName) THEN 0 ELSE 1
    /\ \A e \in EvaluatedEntries : e.fetches = 0

\* C34 witness: a search of two generations of MaxPopulation individuals has
\* returned with one fetch made.
C34_Witness ==
    /\ opt.status = "done"
    /\ opt.config.generations = 2
    /\ opt.config.populationSize = MaxPopulation
    /\ Len(opt.log) = 2
    /\ opt.fetches = 1

Elites ==
    LET ranked == sortByScore(opt.log[Len(opt.log)])
    IN  {ranked[i].params : i \in 1..((opt.config.populationSize * 2) \div 10)}

\* C32: the best floor(0.2 * populationSize) individuals of a generation are
\* in the population of the next generation with their parameter values
\* unchanged.
C32_ElitesCarriedOver ==
    opt.status = "running" /\ opt.log # <<>> =>
        \A elite \in Elites : \E i \in DOMAIN opt.population : opt.population[i] = elite

\* the individuals of one generation that ran and were scored, as logged
ScoredIn(generation) ==
    {generation[i] : i \in {k \in DOMAIN generation : ~generation[k].threw}}

\* C31: the penalty for too few trades is below the fitness of every
\* individual scored by its profit (more than 5 trades), so no penalised
\* individual of a generation ranks above one scored by its profit.
C31_PenaltyBelowEveryProfit ==
    opt.status \in {"running", "done", "failed"} =>
        \A g \in DOMAIN opt.log :
            \A real \in ScoredIn(opt.log[g]), few \in ScoredIn(opt.log[g]) :
                real.returned[1].totalTrades > 5 /\ few.returned[1].totalTrades <= 5
                    => FGt(real.score, few.score)

\* C33: every parameter value of every individual of every generation lies
\* within [min, max] of its range (the spaces explored have min <= max and a
\* step above 0).
C33_ValuesWithinRange ==
    opt.status = "running" =>
        \A i \in DOMAIN opt.population : \A key \in DOMAIN opt.config.parameterSpace :
            /\ ~FGt(opt.config.parameterSpace[key].min, opt.population[i][key])
            /\ ~FGt(opt.population[i][key], opt.config.parameterSpace[key].max)

\* C36: fitness depends on the individual's parameter values and the bars
\* only: two individuals of one search with equal parameter values have
\* equal fitness.
C36_EqualParamsEqualFitness ==
    opt.status \in {"running", "done", "failed"} =>
        \A g \in DOMAIN opt.log, h \in DOMAIN opt.log :
            \A i \in DOMAIN opt.log[g], j \in DOMAIN opt.log[h] :
                opt.log[g][i].params = opt.log[h][j].params
                    => opt.log[g][i].score = opt.log[h][j].score

(***************************************************************************)
(* Overlapping timer firings (SpecOverlap)                                 *)
(***************************************************************************)
\* position.amount as this.activeTrades records it, 0 without a position
RecordedQuantity(coin) ==
    IF coin \in DOMAIN activeTrades THEN activeTrades[coin].amount ELSE Zero

\* C37: timer firings that overlap cause no duplicate orders: whenever no
\* evaluation is in flight, the quantity bought in accepted orders minus the
\* quantity sold in accepted orders is the quantity the position records
\* (taken over runs in which every accepted order was also logged).
C37_AcceptedMatchesRecorded ==
    overlap.fired > 0 /\ overlap.flights = <<>> /\ ~overlap.unlogged =>
        overlap.net = RecordedQuantity(coins[1])

====
